---- MODULE Spec2Model ----
(***************************************************************************)
(* Model of the iKala dataset loader, src/mirdata/ikala.py.                *)
(*                                                                         *)
(* Representation of Python values:                                        *)
(*   - a str is a sequence of one-character strings ("1_v" is              *)
(*     <<"1","_","v">>), so that split, join and float() are computed;     *)
(*   - a text file is the sequence of its lines (without line ends);       *)
(*   - an optional value (X or None) is <<>> for None and <<x>> for x,     *)
(*     except data_home, where None is the token sequence PyNone so that   *)
(*     it can live in the same dict as the singer strings;                 *)
(*   - a dict is a function; a float number of Hz is an integer number of  *)
(*     milli-Hz, a float number of seconds an integer number of ms.        *)
(***************************************************************************)
EXTENDS Integers, Sequences, FiniteSets, TLC

VARIABLES
    IKALA_METADATA, \* the process-wide cache slot: None or the singer dict
    fs,             \* the file system: path -> None or the file's lines
    wav,            \* what the audio decoder yields for the one audio path
    ret             \* the last call: its arguments, outcome and I/O trace

vars == <<IKALA_METADATA, fs, wav, ret>>

(***************************** bounds **************************************)
MaxLines == 3       \* lines of a pitch-label file
MaxRows == 3        \* rows of a lyrics file
MaxMapRows == 3     \* data rows of a singer mapping file
MaxChannels == 3    \* channels of a decoded audio file
MaxSamples == 2     \* samples per channel of a decoded audio file

(***************************** Python values *******************************)
None == <<>>
Some(v) == <<v>>
IsNone(o) == o = <<>>
PyNone == <<"None">>

RECURSIVE SeqsUpTo(_, _)
\* all sequences over S of length at most n
SeqsUpTo(S, n) ==
    IF n = 0 THEN {<<>>}
    ELSE LET shorter == SeqsUpTo(S, n - 1)
         IN  shorter \cup {Append(s, x) : s \in shorter, x \in S}

RECURSIVE split(_, _)
\* str.split(sep) for a one-character sep: always at least one field
split(s, sep) ==
    IF s = <<>> THEN << <<>> >>
    ELSE LET rest == split(Tail(s), sep)
         IN  IF Head(s) = sep
             THEN << <<>> >> \o rest
             ELSE << <<Head(s)>> \o Head(rest) >> \o Tail(rest)

RECURSIVE join(_, _)
\* sep.join(fields)
join(sep, fields) ==
    IF fields = <<>> THEN <<>>
    ELSE IF Len(fields) = 1 THEN Head(fields)
    ELSE Head(fields) \o <<sep>> \o join(sep, Tail(fields))

\* one row of csv.reader(fhandle, delimiter=d) for a line without quote
\* characters: a blank line is the empty row, any other line its fields
csv_row(line, d) == IF line = <<>> THEN <<>> ELSE split(line, d)

Digits == <<"0", "1", "2", "3", "4", "5", "6", "7", "8", "9">>
IsDigit(c) == \E i \in 1..10 : Digits[i] = c
DigitVal(c) == (CHOOSE i \in 1..10 : Digits[i] = c) - 1

RECURSIVE nat_value(_)
nat_value(s) ==
    IF s = <<>> THEN 0
    ELSE 10 * nat_value(SubSeq(s, 1, Len(s) - 1)) + DigitVal(s[Len(s)])

\* float(s) on the literals [-]digits+ : [ok, val]; anything else over the
\* model's alphabet raises ValueError (ok = FALSE)
float(s) ==
    LET neg  == s # <<>> /\ Head(s) = "-"
        body == IF neg THEN Tail(s) ELSE s
    IN  IF body # <<>> /\ \A i \in 1..Len(body) : IsDigit(body[i])
        THEN [ok |-> TRUE, val |-> IF neg THEN 0 - nat_value(body) ELSE nat_value(body)]
        ELSE [ok |-> FALSE, val |-> 0]

(***************************** index and paths *****************************)
IKALA_TIME_STEP == 32   \* 0.032 s, in ms
IKALA_DIR == "iKala"
MIR_DATASETS_DIR == <<"D">>   \* the default data home, used when data_home is None

Track1 == <<"1", "_", "v">>
Track2 == <<"2", "_", "c">>
Track3 == <<"3", "_", "v", "_", "2">>

\* the static index: track id -> {audio, pitch, lyrics: [relative path, checksum]}
IKALA_INDEX ==
    (Track1 :> [audio  |-> <<"iKala/Wavfile/1_v.wav", "md5-audio">>,
                pitch  |-> <<"iKala/PitchLabel/1_v.pv", "md5-pitch">>,
                lyrics |-> <<"iKala/Lyrics/1_v.lab", "md5-lyrics">>]) @@
    (Track2 :> [audio  |-> <<"iKala/Wavfile/2_c.wav", "md5-audio">>,
                pitch  |-> <<"iKala/PitchLabel/2_c.pv", "md5-pitch">>,
                lyrics |-> <<"iKala/Lyrics/2_c.lab", "md5-lyrics">>]) @@
    (Track3 :> [audio  |-> <<"iKala/Wavfile/3_v_2.wav", "md5-audio">>,
                pitch  |-> <<"iKala/PitchLabel/3_v_2.pv", "md5-pitch">>,
                lyrics |-> <<"iKala/Lyrics/3_v_2.lab", "md5-lyrics">>])

\* IKALA_INDEX.keys(), in the index file's order
IndexKeys == <<Track1, Track2, Track3>>

\* utils.get_local_path(data_home, rel_path): the path is the pair
\* <<directory, relative path>>; None selects the default data home
get_local_path(data_home, rel_path) ==
    <<IF data_home = PyNone THEN MIR_DATASETS_DIR ELSE data_home, rel_path>>

IdMapRel == IKALA_DIR \o "/id_mapping.txt"

HomeA == <<"A">>
DataHomes == {PyNone, HomeA}
Dirs == {MIR_DATASETS_DIR, HomeA}
RelPaths ==
    {IdMapRel} \cup
    UNION {{IKALA_INDEX[t].audio[1], IKALA_INDEX[t].pitch[1], IKALA_INDEX[t].lyrics[1]} :
           t \in DOMAIN IKALA_INDEX}
Paths == Dirs \X RelPaths

\* os.path.exists(path)
exists(files, path) == ~IsNone(files[path])

NoFiles == [p \in Paths |-> None]

(***************************** pitch-label parser **************************)
ValueErrorTrackId == "ValueError: not a valid track ID in IKala"
ValueErrorFloat == "ValueError: could not convert string to float"
IndexError == "IndexError"
KeyError == "KeyError"

\* 2^(r/12) for r = 0..11, times 1000
SemitoneRatio == <<1000, 1059, 1122, 1189, 1260, 1335, 1414, 1498, 1587, 1682, 1782, 1888>>

RECURSIVE pow2(_)
pow2(n) == IF n = 0 THEN 1 ELSE 2 * pow2(n - 1)

\* librosa.midi_to_hz: 440 * 2^((midi - 69) / 12), in milli-Hz
midi_to_hz(midi) ==
    LET q == (midi - 69) \div 12
        r == (midi - 69) % 12
        base == 440 * SemitoneRatio[r + 1]
    IN  IF q >= 0 THEN base * pow2(q) ELSE base \div pow2(0 - q)

\* a numpy bool used as a factor
as_int(b) == IF b THEN 1 ELSE 0

\* the mutant of gated_hz: the Hz formula without the silence gate
ungated_hz(midi) == midi_to_hz(midi)

\* one element of librosa.midi_to_hz(f0_midi) * (f0_midi > 0)
gated_hz(midi) == midi_to_hz(midi) * as_int(midi > 0)

\* one element of (f0_hz > 0).astype(int)
f0_confidence(hz) == as_int(hz > 0)

\* utils.F0Data(times, frequencies, confidence)
F0Data(times, frequencies, confidence) ==
    [times |-> times, frequencies |-> frequencies, confidence |-> confidence]

IOError == "IOError: No such file or directory"

\* the mutant of _load_f0: the file is opened without the existence check
_load_f0_opens_blindly(files, f0_path) ==
    IF ~exists(files, f0_path)
    THEN [err |-> IOError, val |-> None, io |-> << <<"open", f0_path>> >>]
    ELSE [err |-> "", val |-> Some(F0Data(<<>>, <<>>, <<>>)),
          io |-> << <<"open", f0_path>> >>]

\* _load_f0(f0_path): [err, val, io]; err = "" when the call returns val
_load_f0(files, f0_path) ==
    IF ~exists(files, f0_path)
    THEN [err |-> "", val |-> None, io |-> << <<"exists", f0_path>> >>]
    ELSE LET lines  == files[f0_path][1]
             io     == << <<"exists", f0_path>>, <<"open", f0_path>> >>
             parsed == [i \in 1..Len(lines) |-> float(lines[i])]
         IN  IF \E i \in 1..Len(lines) : ~parsed[i].ok
             THEN [err |-> ValueErrorFloat, val |-> None, io |-> io]
             ELSE LET f0_midi    == [i \in 1..Len(lines) |-> parsed[i].val]
                      f0_hz      == [i \in 1..Len(lines) |-> gated_hz(f0_midi[i])]
                      confidence == [i \in 1..Len(lines) |-> f0_confidence(f0_hz[i])]
                      times      == [i \in 1..Len(lines) |-> (i - 1) * IKALA_TIME_STEP]
                  IN  [err |-> "", val |-> Some(F0Data(times, f0_hz, confidence)),
                       io |-> io]

\* the lines a pitch-label file is made of in the model
PitchLines == {<<"0">>, <<"6", "9">>, <<"1">>, <<"-", "5">>, <<"x">>}
PitchPath == get_local_path(PyNone, IKALA_INDEX[Track1].pitch[1])

InitF0 ==
    /\ IKALA_METADATA = None
    /\ wav = None
    /\ ret = [op |-> "init"]
    /\ \E content \in {None} \cup {Some(ls) : ls \in SeqsUpTo(PitchLines, MaxLines)} :
           fs = [NoFiles EXCEPT ![PitchPath] = content]

CallLoadF0 ==
    /\ ret' = [op |-> "_load_f0", path |-> PitchPath, out |-> _load_f0(fs, PitchPath)]
    /\ UNCHANGED <<IKALA_METADATA, fs, wav>>

NextF0 == CallLoadF0

SpecF0 == InitF0 /\ [][NextF0]_vars

\* C5: for an existing pitch-label file of n numeric lines, the parser returns
\* times, frequencies and confidence of length n in input order (frame i is
\* line i, at time i * 0.032 s); a line whose MIDI value is 0 yields frequency
\* 0 and confidence 0; and confidence[i] = 1 iff frequency[i] > 0, else 0.
C5_F0Shape ==
    (ret.op = "_load_f0" /\ exists(fs, ret.path)
        /\ \A i \in 1..Len(fs[ret.path][1]) : float(fs[ret.path][1][i]).ok)
    => LET lines == fs[ret.path][1]
           n     == Len(lines)
       IN  /\ ret.out.err = "" /\ ~IsNone(ret.out.val)
           /\ LET d == ret.out.val[1]
              IN  /\ Len(d.times) = n /\ Len(d.frequencies) = n /\ Len(d.confidence) = n
                  /\ \A i \in 1..n :
                       LET midi == float(lines[i]).val
                       IN  /\ d.times[i] = (i - 1) * 32
                           /\ midi = 0 => (d.frequencies[i] = 0 /\ d.confidence[i] = 0)
                           /\ midi > 0 => d.frequencies[i] = midi_to_hz(midi)
                           /\ d.confidence[i] \in {0, 1}
                           /\ d.confidence[i] = 1 <=> d.frequencies[i] > 0

\* a file with a silent frame, a voiced frame and a negative MIDI value was parsed
C5_Witness ==
    /\ ret.op = "_load_f0"
    /\ exists(fs, ret.path)
    /\ fs[ret.path][1] = << <<"0">>, <<"6", "9">>, <<"-", "5">> >>
    /\ ret.out.err = ""
    /\ ret.out.val[1].frequencies = <<0, 440000, 0>>
    /\ ret.out.val[1].confidence = <<0, 1, 0>>

(***************************** lyrics parser *******************************)
\* the mutant of pronounciation_of: the joined string is kept even when empty
pronounciation_kept_empty(line) ==
    IF Len(line) > 2 THEN Some(join(" ", SubSeq(line, 4, Len(line)))) ELSE None

\* the if/else of the row loop: ' '.join(line[3:]), or None when that is ''
pronounciation_of(line) ==
    IF Len(line) > 2
    THEN LET pronounciation == join(" ", SubSeq(line, 4, Len(line)))
         IN  IF pronounciation # <<>> THEN Some(pronounciation) ELSE None
    ELSE None

\* the body of the loop over the csv reader for one row, statement by
\* statement: [err, start, end, lyric, pron]
lyrics_row(line) ==
    LET fail(e) == [err |-> e, start |-> 0, end |-> 0, lyric |-> <<>>, pron |-> None]
    IN  IF Len(line) < 1 THEN fail(IndexError)
        ELSE IF ~float(line[1]).ok THEN fail(ValueErrorFloat)
        ELSE IF Len(line) < 2 THEN fail(IndexError)
        ELSE IF ~float(line[2]).ok THEN fail(ValueErrorFloat)
        ELSE IF Len(line) < 3 THEN fail(IndexError)
        ELSE [err   |-> "",
              start |-> float(line[1]).val,    \* seconds * 1000
              end   |-> float(line[2]).val,    \* seconds * 1000
              lyric |-> line[3],
              pron  |-> pronounciation_of(line)]

\* utils.LyricsData(start_times, end_times, lyrics, pronounciations)
LyricsData(start_times, end_times, lyrics, pronounciations) ==
    [start_times |-> start_times, end_times |-> end_times,
     lyrics |-> lyrics, pronounciations |-> pronounciations]

\* _load_lyrics(lyrics_path): [err, val, io]
_load_lyrics(files, lyrics_path) ==
    IF ~exists(files, lyrics_path)
    THEN [err |-> "", val |-> None, io |-> << <<"exists", lyrics_path>> >>]
    ELSE LET lines == files[lyrics_path][1]
             io    == << <<"exists", lyrics_path>>, <<"open", lyrics_path>> >>
             rows  == [i \in 1..Len(lines) |-> lyrics_row(csv_row(lines[i], " "))]
             bad   == {i \in 1..Len(lines) : rows[i].err # ""}
         IN  IF bad # {}
             THEN [err |-> rows[CHOOSE i \in bad : \A j \in bad : i <= j].err,
                   val |-> None, io |-> io]
             ELSE [err |-> "",
                   val |-> Some(LyricsData([i \in 1..Len(lines) |-> rows[i].start],
                                           [i \in 1..Len(lines) |-> rows[i].end],
                                           [i \in 1..Len(lines) |-> rows[i].lyric],
                                           [i \in 1..Len(lines) |-> rows[i].pron])),
                   io |-> io]

\* the rows a lyrics file is made of in the model
RowPlain == <<"1", " ", "2", " ", "l", "a">>
RowPron == <<"3", " ", "4", " ", "l", "a", " ", "l", " ", "a">>
RowTrailingSpace == <<"1", " ", "2", " ", "a", " ">>
RowDoubleSpace == <<"1", " ", "2", " ", "a", " ", " ", "b">>
RowShort == <<"1", " ", "2">>
RowNotNumeric == <<"x", " ", "2", " ", "a">>
LyricsRows == {RowPlain, RowPron, RowTrailingSpace, RowDoubleSpace, RowShort,
               RowNotNumeric, <<>>}
LyricsPath == get_local_path(PyNone, IKALA_INDEX[Track1].lyrics[1])

InitLyrics ==
    /\ IKALA_METADATA = None
    /\ wav = None
    /\ ret = [op |-> "init"]
    /\ \E content \in {None} \cup {Some(ls) : ls \in SeqsUpTo(LyricsRows, MaxRows)} :
           fs = [NoFiles EXCEPT ![LyricsPath] = content]

CallLoadLyrics ==
    /\ ret' = [op |-> "_load_lyrics", path |-> LyricsPath,
               out |-> _load_lyrics(fs, LyricsPath)]
    /\ UNCHANGED <<IKALA_METADATA, fs, wav>>

NextLyrics == CallLoadLyrics

SpecLyrics == InitLyrics /\ [][NextLyrics]_vars

\* a row with at least 3 space-separated fields whose first two are numeric
WellFormedRow(line) ==
    LET fields == split(line, " ")
    IN  Len(fields) >= 3 /\ float(fields[1]).ok /\ float(fields[2]).ok

SingerWord == <<"s", "i", "n", "g", "e", "r">>
DataHomeKey == <<"d", "a", "t", "a", "_", "h", "o", "m", "e">>
HeaderRow == SingerWord \o <<"\t", "s", "o", "n", "g">>

\* the file served at ID_MAPPING_URL
RemoteMapping ==
    <<HeaderRow, <<"s", "1", "\t", "1">>, <<"s", "2", "\t", "2">>, <<"s", "3", "\t", "3">>>>

\* utils.download_large_file(url, path): the remote file is stored at path
download_large_file(files, path) == [files EXCEPT ![path] = Some(RemoteMapping)]

\* the statement that raises IndexError on a row, if any: line[0] on an
\* empty row, line[1] on a one-field row that is not skipped
map_row_fails(line) ==
    \/ Len(line) < 1
    \/ (line[1] # SingerWord /\ Len(line) < 2)

RECURSIVE singer_map_of(_, _)
\* the loop over the csv reader: rows whose first field is 'singer' are
\* skipped, every other row stores singer_map[line[1]] = line[0]
singer_map_of(rows, singer_map) ==
    IF rows = <<>> THEN singer_map
    ELSE LET line == Head(rows)
         IN  singer_map_of(Tail(rows),
                           IF line[1] = SingerWord
                           THEN singer_map
                           ELSE (line[2] :> line[1]) @@ singer_map)

EmptyDict == [k \in {} |-> <<>>]

\* _load_metadata(data_home): [err, val, files, io]
_load_metadata(files, data_home) ==
    LET id_map_path == get_local_path(data_home, IdMapRel)
        present     == exists(files, id_map_path)
        files1      == IF present THEN files ELSE download_large_file(files, id_map_path)
        io          == << <<"exists", id_map_path>> >>
                       \o (IF present THEN <<>> ELSE << <<"download", id_map_path>> >>)
                       \o << <<"open", id_map_path>> >>
        lines       == files1[id_map_path][1]
        rows        == [i \in 1..Len(lines) |-> csv_row(lines[i], "\t")]
    IN  IF \E i \in 1..Len(rows) : map_row_fails(rows[i])
        THEN [err |-> IndexError, val |-> EmptyDict, files |-> files1, io |-> io]
        ELSE [err   |-> "",
              val   |-> (DataHomeKey :> data_home) @@ singer_map_of(rows, EmptyDict),
              files |-> files1,
              io    |-> io]

\* _reload_metadata(data_home): [err, meta, files, io]; the global is
\* assigned only when _load_metadata returns
_reload_metadata(meta, files, data_home) ==
    LET loaded == _load_metadata(files, data_home)
    IN  [err   |-> loaded.err,
         meta  |-> IF loaded.err = "" THEN Some(loaded.val) ELSE meta,
         files |-> loaded.files,
         io    |-> loaded.io]

\* the data rows a singer mapping file is made of in the model
MapRow11 == <<"s", "1", "\t", "1">>
MapRow21 == <<"s", "2", "\t", "1">>
MapRow22 == <<"s", "2", "\t", "2">>
MapRowSinger3 == SingerWord \o <<"\t", "3">>
MapRowDataHome == <<"s", "3", "\t">> \o DataHomeKey
MapRows == {MapRow11, MapRow21, MapRow22, MapRowSinger3, MapRowDataHome, <<>>}
MapPath == get_local_path(PyNone, IdMapRel)

InitMeta ==
    /\ IKALA_METADATA = None
    /\ wav = None
    /\ ret = [op |-> "init"]
    /\ \E content \in {None} \cup
                      {Some(<<HeaderRow>> \o rs) : rs \in SeqsUpTo(MapRows, MaxMapRows)} :
           fs = [NoFiles EXCEPT ![MapPath] = content]

CallLoadMetadata ==
    \E data_home \in DataHomes :
        \E out \in {_load_metadata(fs, data_home)} :
            /\ ret' = [op |-> "_load_metadata", data_home |-> data_home,
                       path |-> get_local_path(data_home, IdMapRel),
                       out |-> [err |-> out.err, val |-> out.val, io |-> out.io]]
            /\ fs' = out.files
            /\ UNCHANGED <<IKALA_METADATA, wav>>

CallReloadMetadata ==
    \E data_home \in DataHomes :
        \E out \in {_reload_metadata(IKALA_METADATA, fs, data_home)} :
            /\ ret' = [op |-> "_reload_metadata", data_home |-> data_home,
                       path |-> get_local_path(data_home, IdMapRel),
                       out |-> [err |-> out.err, io |-> out.io]]
            /\ fs' = out.files
            /\ IKALA_METADATA' = out.meta
            /\ UNCHANGED wav

NextMeta == CallLoadMetadata \/ CallReloadMetadata

SpecMeta == InitMeta /\ [][NextMeta]_vars

\* C10: the parser skips only the header row; every non-header row r that is
\* the last with its key contributes map[r[1]] = r[0] (Python indices).
C10_EveryDataRowMapped ==
    (ret.op = "_load_metadata" /\ ret.out.err = "")
    => LET lines == fs[ret.path][1]
           rows  == [i \in 1..Len(lines) |-> split(lines[i], "\t")]
       IN  \A i \in 2..Len(rows) :
             (\A j \in (i + 1)..Len(rows) : rows[j][2] # rows[i][2])
             => /\ rows[i][2] \in DOMAIN ret.out.val
                /\ ret.out.val[rows[i][2]] = rows[i][1]

(***************************** audio accessors *****************************)
\* IKalaTrack, the namedtuple of the seven fields
IKalaTrack(track_id, f0, lyrics, audio_path, singer_id, song_id, section) ==
    [track_id |-> track_id, f0 |-> f0, lyrics |-> lyrics, audio_path |-> audio_path,
     singer_id |-> singer_id, song_id |-> song_id, section |-> section]

AudioLoadError == "librosa.load failed"

\* librosa.load(audio_path, sr=None, mono=False): a one-channel file decodes
\* to a 1-D array, any other file to a 2-D array [channel, sample]
load_multichannel(decoded) ==
    IF IsNone(decoded) THEN [err |-> AudioLoadError, ndim |-> 0, data |-> <<>>, sr |-> 0]
    ELSE IF Len(decoded[1].channels) = 1
    THEN [err |-> "", ndim |-> 1, data |-> decoded[1].channels[1], sr |-> decoded[1].sr]
    ELSE [err |-> "", ndim |-> 2, data |-> decoded[1].channels, sr |-> decoded[1].sr]

\* librosa.load(audio_path, sr=None, mono=True): the mean over the channels,
\* each sample kept as [sum, count]
load_mono(decoded) ==
    IF IsNone(decoded) THEN [err |-> AudioLoadError, data |-> <<>>, sr |-> 0]
    ELSE LET ch == decoded[1].channels
             RECURSIVE total(_, _)
             total(c, i) == IF c = 0 THEN 0 ELSE ch[c][i] + total(c - 1, i)
         IN  [err  |-> "",
              data |-> [i \in 1..Len(ch[1]) |-> [sum |-> total(Len(ch), i), count |-> Len(ch)]],
              sr   |-> decoded[1].sr]

\* audio[k, :] on a numpy array: two indices need a 2-D array, and k must
\* be a row of it
row_of(audio, k) ==
    IF audio.ndim < 2 \/ k + 1 > Len(audio.data)
    THEN [err |-> IndexError, val |-> <<>>]
    ELSE [err |-> "", val |-> audio.data[k + 1]]

\* load_ikala_vocal_audio(ikalatrack): [err, val, sr]
load_ikala_vocal_audio(decoded, ikalatrack) ==
    LET audio == load_multichannel(decoded)
    IN  IF audio.err # "" THEN [err |-> audio.err, val |-> <<>>, sr |-> 0]
        ELSE LET vocal_channel == row_of(audio, 1)
             IN  [err |-> vocal_channel.err, val |-> vocal_channel.val,
                  sr |-> IF vocal_channel.err = "" THEN audio.sr ELSE 0]

\* load_ikala_instrumental_audio(ikalatrack): [err, val, sr]
load_ikala_instrumental_audio(decoded, ikalatrack) ==
    LET audio == load_multichannel(decoded)
    IN  IF audio.err # "" THEN [err |-> audio.err, val |-> <<>>, sr |-> 0]
        ELSE LET instrumental_channel == row_of(audio, 0)
             IN  [err |-> instrumental_channel.err, val |-> instrumental_channel.val,
                  sr |-> IF instrumental_channel.err = "" THEN audio.sr ELSE 0]

\* load_ikala_mix_audio(ikalatrack): [err, val, sr]
load_ikala_mix_audio(decoded, ikalatrack) ==
    LET mixed_audio == load_mono(decoded)
    IN  [err |-> mixed_audio.err, val |-> mixed_audio.data, sr |-> mixed_audio.sr]

Samples == {0, 1}
\* the record whose audio the accessors are called on
AudioTrack ==
    IKalaTrack(Track1, None, None, get_local_path(PyNone, IKALA_INDEX[Track1].audio[1]),
               <<"s", "1">>, <<"1">>, <<"v">>)

RECURSIVE SeqsOfLen(_, _)
SeqsOfLen(S, n) ==
    IF n = 0 THEN {<<>>} ELSE {Append(s, x) : s \in SeqsOfLen(S, n - 1), x \in S}

InitAudio ==
    /\ IKALA_METADATA = None
    /\ fs = NoFiles
    /\ ret = [op |-> "init"]
    /\ \E c \in 0..MaxChannels :
         IF c = 0 THEN wav = None
         ELSE \E chans \in SeqsOfLen(SeqsOfLen(Samples, MaxSamples), c) :
                  wav = Some([sr |-> 44100, channels |-> chans])

CallVocal ==
    /\ ret' = [op |-> "load_ikala_vocal_audio", track |-> AudioTrack,
               out |-> load_ikala_vocal_audio(wav, AudioTrack)]
    /\ UNCHANGED <<IKALA_METADATA, fs, wav>>

CallInstrumental ==
    /\ ret' = [op |-> "load_ikala_instrumental_audio", track |-> AudioTrack,
               out |-> load_ikala_instrumental_audio(wav, AudioTrack)]
    /\ UNCHANGED <<IKALA_METADATA, fs, wav>>

CallMix ==
    /\ ret' = [op |-> "load_ikala_mix_audio", track |-> AudioTrack,
               out |-> load_ikala_mix_audio(wav, AudioTrack)]
    /\ UNCHANGED <<IKALA_METADATA, fs, wav>>

NextAudio == CallVocal \/ CallInstrumental \/ CallMix

SpecAudio == InitAudio /\ [][NextAudio]_vars

\* C7: the vocal and instrumental accessors return channel 1 and channel 0 of
\* the decoded audio, and fail whenever the decoded audio does not have
\* exactly two channels; they never return a channel from such audio.
C7_TwoChannelsOrError ==
    (ret.op \in {"load_ikala_vocal_audio", "load_ikala_instrumental_audio"} /\ ~IsNone(wav))
    => LET ch == wav[1].channels
       IN  IF Len(ch) = 2
           THEN /\ ret.out.err = ""
                /\ ret.out.val = IF ret.op = "load_ikala_vocal_audio" THEN ch[2] ELSE ch[1]
           ELSE ret.out.err # ""

(***************************** validation **********************************)
\* the reference contents the index's checksums were taken from
GoodAudio == << <<"R", "I", "F", "F">> >>
GoodPitch == << <<"0">>, <<"6", "9">> >>
GoodLyrics == <<RowPlain, RowPron>>

\* the checksum of a file's content; distinct contents have distinct checksums
md5(content) ==
    IF content = GoodAudio THEN "md5-audio"
    ELSE IF content = GoodPitch THEN "md5-pitch"
    ELSE IF content = GoodLyrics THEN "md5-lyrics"
    ELSE "md5-other"

\* the [relative path, checksum] entries of an index
index_files(dataset_index) ==
    UNION {{dataset_index[t].audio, dataset_index[t].pitch, dataset_index[t].lyrics} :
           t \in DOMAIN dataset_index}

\* utils.validator(dataset_index, data_home, dataset_path): the indexed files
\* are looked up under data_home; the report is two sets of local paths
validator(files, dataset_index, data_home, dataset_path) ==
    LET local(e) == get_local_path(data_home, e[1])
    IN  [missing_files     |-> {local(e) : e \in {x \in index_files(dataset_index) :
                                                      ~exists(files, local(x))}},
         invalid_checksums |-> {local(e) : e \in {x \in index_files(dataset_index) :
                                                      /\ exists(files, local(x))
                                                      /\ md5(files[local(x)][1]) # x[2]}}]

\* validate(dataset_path, data_home=None)
validate(files, dataset_path, data_home) ==
    validator(files, IKALA_INDEX, data_home, dataset_path)

(***************************** track loader ********************************)
NoTrack == IKalaTrack(<<>>, None, None, <<>>, <<>>, <<>>, <<>>)

\* the mutant of metadata_stale: the cached root is not compared
metadata_stale_if_empty(meta, data_home) == IsNone(meta)

\* IKALA_METADATA is None or IKALA_METADATA['data_home'] != data_home
metadata_stale(meta, data_home) ==
    IsNone(meta) \/ meta[1][DataHomeKey] # data_home

\* the if statement that reloads the metadata: [err, meta, files, io]
ensure_metadata(meta, files, data_home) ==
    IF metadata_stale(meta, data_home)
    THEN _reload_metadata(meta, files, data_home)
    ELSE [err |-> "", meta |-> meta, files |-> files, io |-> <<>>]

\* load_track after its track-id check: [err, val, meta, files, io]
load_valid_track(meta, files, track_id, data_home) ==
    LET md   == ensure_metadata(meta, files, data_home)
        fail(e, io) == [err |-> e, val |-> NoTrack, meta |-> md.meta,
                        files |-> md.files, io |-> io]
    IN  IF md.err # "" THEN fail(md.err, md.io)
        ELSE
        LET track_data  == IKALA_INDEX[track_id]
            f0_data     == _load_f0(md.files, get_local_path(data_home, track_data.pitch[1]))
        IN  IF f0_data.err # "" THEN fail(f0_data.err, md.io \o f0_data.io)
            ELSE
            LET lyrics_data == _load_lyrics(md.files,
                                            get_local_path(data_home, track_data.lyrics[1]))
                io          == md.io \o f0_data.io \o lyrics_data.io
                parts       == split(track_id, "_")
            IN  IF lyrics_data.err # "" THEN fail(lyrics_data.err, io)
                ELSE IF Len(parts) < 2 THEN fail(IndexError, io)
                ELSE
                LET song_id == parts[1]
                    section == parts[2]
                IN  IF song_id \notin DOMAIN md.meta[1] THEN fail(KeyError, io)
                    ELSE [err   |-> "",
                          val   |-> IKalaTrack(track_id, f0_data.val, lyrics_data.val,
                                               get_local_path(data_home, track_data.audio[1]),
                                               md.meta[1][song_id], song_id, section),
                          meta  |-> md.meta,
                          files |-> md.files,
                          io    |-> io]

\* the mutant of load_track: the metadata is brought up to date before the
\* track id is checked
load_track_checks_late(meta, files, track_id, data_home) ==
    LET md == ensure_metadata(meta, files, data_home)
    IN  IF track_id \notin DOMAIN IKALA_INDEX
        THEN [err |-> ValueErrorTrackId, val |-> NoTrack, meta |-> md.meta,
              files |-> md.files, io |-> md.io]
        ELSE load_valid_track(meta, files, track_id, data_home)

\* load_track(track_id, data_home): [err, val, meta, files, io]
load_track(meta, files, track_id, data_home) ==
    IF track_id \notin DOMAIN IKALA_INDEX
    THEN [err |-> ValueErrorTrackId, val |-> NoTrack, meta |-> meta,
          files |-> files, io |-> <<>>]
    ELSE load_valid_track(meta, files, track_id, data_home)

RECURSIVE load_loop(_, _, _, _, _, _)
\* the for loop of load over the remaining keys; t, the outcome of the call
\* of load_track on the first of them, is bound once
load_loop(keys, meta, files, data_home, ikala_data, io) ==
    IF keys = <<>>
    THEN [err |-> "", val |-> ikala_data, meta |-> meta, files |-> files, io |-> io]
    ELSE CHOOSE r \in
             { IF t.err # ""
               THEN [err |-> t.err, val |-> EmptyDict, meta |-> t.meta,
                     files |-> t.files, io |-> io \o t.io]
               ELSE load_loop(Tail(keys), t.meta, t.files, data_home,
                              (Head(keys) :> t.val) @@ ikala_data, io \o t.io) :
               t \in {load_track(meta, files, Head(keys), data_home)} } : TRUE

\* load(data_home): validate(data_home) binds data_home to validate's first
\* parameter, dataset_path, and leaves validate's data_home at None
load(meta, files, data_home) ==
    LET report == validate(files, data_home, PyNone)
        loaded == load_loop(IndexKeys, meta, files, data_home, EmptyDict, <<>>)
    IN  [err |-> loaded.err, val |-> loaded.val, meta |-> loaded.meta,
         files |-> loaded.files, io |-> loaded.io, report |-> report]

(***************************** the loader as a state machine ***************)
UnknownTrack == <<"9", "_", "v">>
TrackIdArgs == DOMAIN IKALA_INDEX \cup {UnknownTrack}

AllTracks(content) == [t \in DOMAIN IKALA_INDEX |-> content]
FullLayout ==
    [audio  |-> AllTracks(Some(GoodAudio)),
     pitch  |-> AllTracks(Some(GoodPitch)),
     lyrics |-> AllTracks(Some(GoodLyrics))]

EmptyLayout ==
    [audio |-> AllTracks(None), pitch |-> AllTracks(None), lyrics |-> AllTracks(None)]
NoPitch1Layout == [FullLayout EXCEPT !.pitch[Track1] = None]
NoLyricsLayout == [FullLayout EXCEPT !.lyrics = AllTracks(None)]
BadTrack2Layout ==
    [FullLayout EXCEPT !.audio[Track2] = Some(<<>>), !.pitch[Track2] = Some(<< <<"x">> >>)]
BadLyrics3Layout == [FullLayout EXCEPT !.lyrics[Track3] = Some(<<RowShort>>)]

\* singer mapping files a data home may hold
MapPartial == <<HeaderRow, MapRow11>>
MapDuplicates == <<HeaderRow, MapRow11, MapRow21, MapRow22, <<"s", "3", "\t", "3">>>>
MapSingerNamedSinger == <<HeaderRow, MapRow11, MapRow22, MapRowSinger3>>
MapWithDataHomeRow == <<HeaderRow, MapRow11, MapRowDataHome>>

\* what a data home may hold: the dataset files and the singer mapping file
DataHomeStates ==
    { [layout |-> EmptyLayout,      mapping |-> None],
      [layout |-> FullLayout,       mapping |-> None],
      [layout |-> FullLayout,       mapping |-> Some(MapDuplicates)],
      [layout |-> FullLayout,       mapping |-> Some(MapSingerNamedSinger)],
      [layout |-> FullLayout,       mapping |-> Some(MapWithDataHomeRow)],
      [layout |-> NoPitch1Layout,   mapping |-> Some(MapPartial)],
      [layout |-> NoLyricsLayout,   mapping |-> None],
      [layout |-> BadTrack2Layout,  mapping |-> Some(MapSingerNamedSinger)],
      [layout |-> BadLyrics3Layout, mapping |-> Some(MapDuplicates)] }

\* the content of path p when directory d holds home[d]
file_of(home, p) ==
    LET d == p[1]
    IN  IF p[2] = IdMapRel THEN home[d].mapping
        ELSE LET t == CHOOSE t \in DOMAIN IKALA_INDEX :
                          p[2] \in {IKALA_INDEX[t].audio[1], IKALA_INDEX[t].pitch[1],
                                    IKALA_INDEX[t].lyrics[1]}
             IN  IF p[2] = IKALA_INDEX[t].audio[1] THEN home[d].layout.audio[t]
                 ELSE IF p[2] = IKALA_INDEX[t].pitch[1] THEN home[d].layout.pitch[t]
                 ELSE home[d].layout.lyrics[t]

Init ==
    /\ IKALA_METADATA = None
    /\ wav = None
    /\ ret = [op |-> "init"]
    /\ \E home \in [Dirs -> DataHomeStates] :
           fs = [p \in Paths |-> file_of(home, p)]

CallLoadTrack ==
    \E track_id \in TrackIdArgs, data_home \in DataHomes :
        \E out \in {load_track(IKALA_METADATA, fs, track_id, data_home)} :
            /\ IKALA_METADATA' = out.meta
            /\ fs' = out.files
            /\ ret' = [op |-> "load_track", track_id |-> track_id, data_home |-> data_home,
                       out |-> [err |-> out.err, val |-> out.val, io |-> out.io]]
            /\ UNCHANGED wav

CallLoad ==
    \E data_home \in DataHomes :
        \E out \in {load(IKALA_METADATA, fs, data_home)} :
            /\ IKALA_METADATA' = out.meta
            /\ fs' = out.files
            /\ ret' = [op |-> "load", data_home |-> data_home, before |-> fs,
                       out |-> [err |-> out.err, val |-> out.val, io |-> out.io,
                                report |-> out.report]]
            /\ UNCHANGED wav

Next == CallLoadTrack \/ CallLoad

Spec == Init /\ [][Next]_vars

Opened(io, path) == \E i \in 1..Len(io) : io[i] = <<"open", path>>
Downloaded(io, path) == \E i \in 1..Len(io) : io[i] = <<"download", path>>

\* C1: load_track on a track id that is not an index key fails with the
\* invalid-track-id error, performs no file I/O (no existence check, no open,
\* no download) and leaves the cache slot and the files unchanged, for every
\* root directory and prior cache state.
C1_UnknownIdNoIO ==
    [][(ret'.op = "load_track" /\ ret'.track_id \notin DOMAIN IKALA_INDEX)
       => /\ ret'.out.err = ValueErrorTrackId
          /\ ret'.out.io = <<>>
          /\ IKALA_METADATA' = IKALA_METADATA
          /\ fs' = fs]_vars

\* an unknown id was rejected while the cache held the mapping of another root
C1_Witness ==
    /\ ret.op = "load_track"
    /\ ret.track_id = UnknownTrack
    /\ ret.out.err = ValueErrorTrackId
    /\ ret.out.io = <<>>
    /\ ~IsNone(IKALA_METADATA)
    /\ IKALA_METADATA[1][DataHomeKey] # ret.data_home

RECURSIVE before_first(_, _)
before_first(s, sep) ==
    IF s = <<>> \/ Head(s) = sep THEN <<>> ELSE <<Head(s)>> \o before_first(Tail(s), sep)
after_first(s, sep) == SubSeq(s, Len(before_first(s, sep)) + 2, Len(s))

\* C3: for an index key for which load_track returns a record, song_id and
\* section are the parts of track_id before and after its first '_', so that
\* song_id + "_" + section = track_id.
C3_SplitOnFirstUnderscore ==
    (ret.op = "load_track" /\ ret.out.err = "")
    => /\ ret.out.val.song_id = before_first(ret.track_id, "_")
       /\ ret.out.val.section = after_first(ret.track_id, "_")
       /\ ret.out.val.song_id \o <<"_">> \o ret.out.val.section = ret.track_id

\* an annotation file that exists and that its parser accepts, or is missing
Parses(path, kind) ==
    ~exists(fs, path) \/
    (IF kind = "pitch" THEN _load_f0(fs, path).err = "" ELSE _load_lyrics(fs, path).err = "")

\* C4: a missing pitch-label or lyrics file is never an error: load_track on a
\* valid id whose singer is known (and whose existing annotation files parse)
\* returns a record; the field of a missing file is absent and the file is
\* not opened, the field of an existing file and all other fields are set.
C4_MissingAnnotationIsAbsent ==
    (/\ ret.op = "load_track"
     /\ ret.track_id \in DOMAIN IKALA_INDEX
     /\ before_first(ret.track_id, "_") \in DOMAIN IKALA_METADATA[1]
     /\ Parses(get_local_path(ret.data_home, IKALA_INDEX[ret.track_id].pitch[1]), "pitch")
     /\ Parses(get_local_path(ret.data_home, IKALA_INDEX[ret.track_id].lyrics[1]), "lyrics"))
    => LET pitch  == get_local_path(ret.data_home, IKALA_INDEX[ret.track_id].pitch[1])
           lyrics == get_local_path(ret.data_home, IKALA_INDEX[ret.track_id].lyrics[1])
           t      == ret.out.val
       IN  /\ ret.out.err = ""
           /\ IsNone(t.f0) <=> ~exists(fs, pitch)
           /\ IsNone(t.lyrics) <=> ~exists(fs, lyrics)
           /\ ~exists(fs, pitch) => ~Opened(ret.out.io, pitch)
           /\ ~exists(fs, lyrics) => ~Opened(ret.out.io, lyrics)
           /\ t.track_id = ret.track_id
           /\ t.audio_path = get_local_path(ret.data_home, IKALA_INDEX[ret.track_id].audio[1])
           /\ t.singer_id = IKALA_METADATA[1][t.song_id]
           /\ t.song_id = before_first(ret.track_id, "_")
           /\ t.section # <<>>

\* track 1 was loaded from a root without its pitch file but with its lyrics
C4_Witness ==
    /\ ret.op = "load_track"
    /\ ret.track_id = Track1
    /\ ret.out.err = ""
    /\ IsNone(ret.out.val.f0)
    /\ ~IsNone(ret.out.val.lyrics)
    /\ ret.out.val.singer_id = <<"s", "1">>
    /\ ~exists(fs, get_local_path(ret.data_home, IKALA_INDEX[Track1].pitch[1]))

\* the data rows of the singer mapping file of a root, as fields
mapping_rows(d) ==
    LET lines == fs[get_local_path(d, IdMapRel)][1]
    IN  [i \in 1..(Len(lines) - 1) |-> split(lines[i + 1], "\t")]

\* C8: load_track on a valid id fails with the unknown-singer error iff the
\* song_id has no row in the singer mapping file of the requested root;
\* otherwise singer_id is the singer of the last mapping row for that song_id.
\* (Stated for the calls that reach the singer lookup.)
C8_UnknownSingerIffNoRow ==
    (ret.op = "load_track" /\ ret.track_id \in DOMAIN IKALA_INDEX
        /\ ret.out.err \in {"", KeyError})
    => LET song_id == before_first(ret.track_id, "_")
           rows    == mapping_rows(ret.data_home)
           mine    == {i \in 1..Len(rows) : rows[i][2] = song_id}
       IN  /\ ret.out.err = KeyError <=> mine = {}
           /\ ret.out.err = ""
              => ret.out.val.singer_id = rows[CHOOSE i \in mine : \A j \in mine : j <= i][1]

\* C9: load(root) validates before loading, is not aborted by what validation
\* reports, validates the files under the root it loads from, and returns one
\* entry per index key, each equal to what load_track(key, root) returns.
C9_LoadValidatesItsRoot ==
    ret.op = "load"
    => /\ ret.out.report = validator(ret.before, IKALA_INDEX, ret.data_home, ret.data_home)
       /\ ret.out.err = ""
          => /\ DOMAIN ret.out.val = DOMAIN IKALA_INDEX
             /\ \A k \in DOMAIN IKALA_INDEX :
                  ret.out.val[k] = load_track(IKALA_METADATA, fs, k, ret.data_home).val
       /\ ret.out.err # ""
          => \E k \in DOMAIN IKALA_INDEX :
                 load_track(IKALA_METADATA, fs, k, ret.data_home).err = ret.out.err

====
